---- MODULE Spec2Model ----
(***************************************************************************)
(* The miner of src/miner.py as a state machine: the run loop of           *)
(* __main__, wait_until, main with its refresh gate, load_dataset,         *)
(* download_dataset, make_submission, the upload and the commit retry      *)
(* loop.  The wall clock `now` is in seconds since midnight of day 0 and   *)
(* never runs backwards; time.sleep(d) returns no earlier than d seconds   *)
(* after it was called.                                                    *)
(***************************************************************************)
EXTENDS Integers, Sequences, FiniteSets, TLC

VARIABLES
    config,       \* the parsed command line: run_at, submission_size
    remote,       \* the records of the eval dataset in the dataset source
    now,          \* the wall clock, in seconds
    pc,           \* where the process is
    run_at_dt,    \* wait_until's run instant (-1 before the first one)
    eval_file,    \* main's eval_file, the current cycle's eval file name
    evalDir,      \* config.eval_data_dir: file name -> records
    subDir,       \* config.submission_dir: file name -> records
    submission_file_path, \* main's submission_file_path
    model_id,     \* main's model_id_with_commit (<<>> before it is built)
    published,    \* the artifact store: the uploads it accepted, in order
    ledger,       \* the chain: the payloads it accepted, in order
    cycle,        \* how many times main has been entered
    log,          \* the steps of the current cycle, in order
    attemptTimes, \* the clock at each announce attempt of the current cycle
    attemptData,  \* the data= argument of each announce attempt of the cycle
    written,      \* every submission file path written, in order
    keys,         \* every period key computed, with the clock it was read from
    runs          \* the run instants wait_until has slept to, in order

vars == <<config, remote, now, pc, run_at_dt, eval_file, evalDir, subDir,
          submission_file_path, model_id, published, ledger, cycle, log,
          attemptTimes, attemptData, written, keys, runs>>

-----------------------------------------------------------------------------
(* Bounds of the model *)

MaxFails == 2        \* the ledger rejects at most MaxFails announces per cycle
MaxCycles == 2       \* main is entered at most MaxCycles times
MaxLen == 3          \* make_submission alone: eval data of 0..MaxLen records

(* Program constants *)

RetrySleep == 120            \* time.sleep(120)
SecondsPerMinute == 60
SecondsPerHour == 3600       \* strftime("%Y%m%d%H"): the hour of the clock
SecondsPerDay == 86400       \* timedelta(days=1)

-----------------------------------------------------------------------------
(* Optional values: None is <<>>, a value v is <<v>>. *)

None == <<>>
Some(v) == <<v>>

(* The inputs the model draws from *)

\* --run-at as its ":"-separated segments ("".split(":") is [""]).
RunAtStrings ==
    { <<"14", "30">>, <<"0", "0", "0">>, <<"23", "59", "59">>,
      <<"">>, <<"14">>, <<"14", "30", "0", "0">>, <<"24", "0">>,
      <<"14", "60">>, <<"14", "30", "60">>, <<"-1", "0">>, <<"xx", "30">> }

StartTimes == {0, 14 * SecondsPerHour + 30 * SecondsPerMinute - 1,
               14 * SecondsPerHour + 30 * SecondsPerMinute}

\* How long a snapshot download may take: no time, or a day less one backoff
\* (it crosses an hour boundary and ends in the hour of the next day's target,
\* and one backoff later the clock is at that target).
FetchDurations == {0, SecondsPerDay - RetrySleep}

\* How much later than the run instant the sleep of wait_until may return.
Oversleep == {0, 1}

\* The sizes of the eval dataset, and the values of --submission-size.
DatasetSizes == {2}
SubmissionSizes == {None, Some(1)}

Record(rev, i) == <<rev, i>>
RemoteData(n) == [i \in 1..n |-> Record("new", i)]
OldData == <<Record("old", 1), Record("old", 2)>>

-----------------------------------------------------------------------------
(* Directories: functions from file names to file contents. *)

EmptyDir == [x \in {} |-> <<>>]
Put(dir, name, content) ==
    [x \in (DOMAIN dir) \cup {name} |-> IF x = name THEN content ELSE dir[x]]
Remove(dir, name) == [x \in (DOMAIN dir) \ {name} |-> dir[x]]
Exists(dir, name) == name \in DOMAIN dir

\* os.rename(src, dst): dst is replaced, src disappears.
Rename(dir, src, dst) == Remove(Put(dir, dst, dir[src]), src)

-----------------------------------------------------------------------------
(* Time *)

\* PeriodKey without the date: strftime("%H")
PeriodKey_hour_only(t) == <<0, (t % SecondsPerDay) \div SecondsPerHour>>

\* datetime.now().strftime("%Y%m%d%H"): the calendar day and the hour of day.
PeriodKey(t) == <<t \div SecondsPerDay, (t % SecondsPerDay) \div SecondsPerHour>>

RawDataName == <<"data.jsonl">>
EvalFileName(key) == <<"eval_data_", key[1], key[2], ".jsonl">>

\* int(s) on a segment: the integers the model's segments spell; anything
\* else raises ValueError.
IntText == [s \in {"0", "14", "23", "24", "30", "59", "60", "-1"} |->
               CASE s = "0" -> 0 [] s = "14" -> 14 [] s = "23" -> 23
                 [] s = "24" -> 24 [] s = "30" -> 30 [] s = "59" -> 59
                 [] s = "60" -> 60 [] s = "-1" -> 0 - 1]
IsInt(s) == s \in DOMAIN IntText
ToInt(s) == IntText[s]

\* datetime.time(hour, minute, second) raises ValueError out of range.
TimeInRange(h, m, s) == h \in 0..23 /\ m \in 0..59 /\ s \in 0..59

\* wait_until's parse of run_at: the target as seconds into the day, or
\* None when a ValueError is raised.
ParseRunAt(parts) ==
    IF Len(parts) \notin {2, 3} THEN None
    ELSE IF \E i \in 1..Len(parts) : ~IsInt(parts[i]) THEN None
    ELSE LET h == ToInt(parts[1])
             m == ToInt(parts[2])
             s == IF Len(parts) = 3 THEN ToInt(parts[3]) ELSE 0
         IN IF TimeInRange(h, m, s)
            THEN Some(h * SecondsPerHour + m * SecondsPerMinute + s)
            ELSE None

\* datetime.combine(now.date(), target)
TodayAt(t, target) == (t \div SecondsPerDay) * SecondsPerDay + target

\* NextRun without the roll to tomorrow
NextRun_no_roll(t, target) == TodayAt(t, target)

\* NextRun with `run_at_dt < now`: a target equal to now is not rolled
NextRun_strict(t, target) ==
    IF TodayAt(t, target) < t THEN TodayAt(t, target) + SecondsPerDay
    ELSE TodayAt(t, target)

\* run_at_dt of wait_until for the clock t and the parsed target
NextRun(t, target) ==
    IF TodayAt(t, target) <= t THEN TodayAt(t, target) + SecondsPerDay
    ELSE TodayAt(t, target)

\* `if config.run_at:` - None and the empty string are falsy.
Truthy(run_at) == run_at # None /\ run_at # <<"">>

-----------------------------------------------------------------------------
(* make_submission *)

\* Perms as a draw with replacement (random.choices)
Perms_with_repeats(n) == [1..n -> 1..n]

Perms(n) == {p \in [1..n -> 1..n] : \A i, j \in 1..n : p[i] = p[j] => i = j}
Shuffled(data, p) == [i \in 1..Len(data) |-> data[p[i]]]

\* eval_data[:submission_size] for a size >= 0
Truncate(data, size) ==
    IF size = None THEN data
    ELSE SubSeq(data, 1, IF size[1] < Len(data) THEN size[1] ELSE Len(data))

SubmissionFileName(key, size) ==
    IF size # None THEN <<"submission_", key[1], key[2], "_", size[1], ".jsonl">>
    ELSE <<"submission_", key[1], key[2], ".jsonl">>

\* The submission_size main passes to make_submission: none, the default.
MainSubmissionSize == None

-----------------------------------------------------------------------------
(* The ledger payload *)

ModelId(namespace, commit, competition_id) ==
    [namespace |-> namespace, commit |-> commit, competition_id |-> competition_id]
to_compressed_str(m) == <<m.namespace, m.commit, m.competition_id>>

HfRepoId == "hf_repo_id"
CompetitionId == "competition"

-----------------------------------------------------------------------------
Init ==
    /\ config \in [run_at : {None} \cup RunAtStrings,
                   submission_size : SubmissionSizes]
    /\ remote \in {RemoteData(n) : n \in DatasetSizes}
    /\ now \in StartTimes
    /\ pc = "loop"
    /\ run_at_dt = -1
    /\ eval_file = None
    /\ evalDir \in {EmptyDir} \cup
                   {Put(EmptyDir, EvalFileName(PeriodKey(t)), OldData) : t \in StartTimes}
    /\ subDir = EmptyDir
    /\ submission_file_path = None
    /\ model_id = None
    /\ published = <<>>
    /\ ledger = <<>>
    /\ cycle = 0
    /\ log = <<>>
    /\ attemptTimes = <<>>
    /\ attemptData = <<>>
    /\ written = <<>>
    /\ keys = <<>>
    /\ runs = <<>>

-----------------------------------------------------------------------------
(* Helpers on the log *)

Count(seq, x) == Len(SelectSeq(seq, LAMBDA y : y = x))
Last(seq) == seq[Len(seq)]
Live == pc \notin {"exit", "crashed", "killed"}

\* Raise with a run loop that catches the exception and goes on
Raise_caught == /\ pc' = "returned"
                /\ log' = Append(log, "raise")

\* An uncaught exception ends the process: nothing in __main__ catches it.
Raise == /\ pc' = "crashed"
         /\ log' = Append(log, "raise")

-----------------------------------------------------------------------------
(* __main__ and wait_until *)

\* wait_until(config.run_at) up to the call of time.sleep(delta)
wait_until ==
    /\ pc = "loop"
    /\ Truthy(config.run_at)
    /\ cycle < MaxCycles
    /\ LET target == ParseRunAt(config.run_at) IN
       IF target = None
       THEN /\ pc' = "crashed"
            /\ log' = <<"raise">>
            /\ UNCHANGED run_at_dt
       ELSE /\ run_at_dt' = NextRun(now, target[1])
            /\ log' = <<"wait">>
            /\ pc' = "sleeping"
    /\ attemptTimes' = <<>>
    /\ attemptData' = <<>>
    /\ UNCHANGED <<config, remote, now, eval_file, evalDir, subDir,
                   submission_file_path, model_id, published, ledger, cycle,
                   written, keys, runs>>

\* time.sleep(delta) returns, asyncio.run(main(config)) is called
wait_until_wake ==
    /\ pc = "sleeping"
    /\ \E over \in Oversleep :
          /\ now' = run_at_dt + over
          /\ runs' = Append(runs, run_at_dt)
    /\ pc' = "main"
    /\ UNCHANGED <<config, remote, run_at_dt, eval_file, evalDir, subDir,
                   submission_file_path, model_id, published, ledger, cycle,
                   log, attemptTimes, attemptData, written, keys>>

\* the else branch of __main__: asyncio.run(main(config)) with no wait
run_once ==
    /\ pc = "loop"
    /\ ~Truthy(config.run_at)
    /\ cycle < MaxCycles
    /\ pc' = "main"
    /\ log' = <<>>
    /\ UNCHANGED <<config, remote, now, run_at_dt, eval_file, evalDir,
                   subDir, submission_file_path, model_id, published,
                   ledger, cycle, attemptTimes, attemptData, written, keys,
                   runs>>

\* run_finished with a `break` after the first run
run_finished_break ==
    /\ pc = "returned"
    /\ Truthy(config.run_at)
    /\ pc' = "exit"
    /\ UNCHANGED <<config, remote, now, run_at_dt, eval_file, evalDir,
                   subDir, submission_file_path, model_id, published,
                   ledger, cycle, log, attemptTimes, attemptData, written,
                   keys, runs>>

\* print("Run finished ..."), back to the head of `while True`
run_finished ==
    /\ pc = "returned"
    /\ Truthy(config.run_at)
    /\ pc' = "loop"
    /\ UNCHANGED <<config, remote, now, run_at_dt, eval_file, evalDir,
                   subDir, submission_file_path, model_id, published,
                   ledger, cycle, log, attemptTimes, attemptData, written,
                   keys, runs>>

\* run_exit that goes back to the head of a loop
run_exit_loops ==
    /\ pc = "returned"
    /\ ~Truthy(config.run_at)
    /\ pc' = "loop"
    /\ UNCHANGED <<config, remote, now, run_at_dt, eval_file, evalDir,
                   subDir, submission_file_path, model_id, published,
                   ledger, cycle, log, attemptTimes, attemptData, written,
                   keys, runs>>

\* the one-shot run is over: the process ends
run_exit ==
    /\ pc = "returned"
    /\ ~Truthy(config.run_at)
    /\ pc' = "exit"
    /\ UNCHANGED <<config, remote, now, run_at_dt, eval_file, evalDir,
                   subDir, submission_file_path, model_id, published,
                   ledger, cycle, log, attemptTimes, attemptData, written,
                   keys, runs>>

-----------------------------------------------------------------------------
(* main, up to the commit loop *)

\* logging, wallet, subtensor, metagraph, assert_registered
main_setup ==
    /\ pc = "main"
    /\ cycle' = cycle + 1
    /\ eval_file' = None
    /\ submission_file_path' = None
    /\ model_id' = None
    /\ attemptTimes' = <<>>
    /\ attemptData' = <<>>
    /\ \/ pc' = "gate" /\ UNCHANGED log
       \/ Raise
    /\ UNCHANGED <<config, remote, now, run_at_dt, evalDir, subDir,
                   published, ledger, written, keys, runs>>

\* main_gate with the check inverted
main_gate_inverted ==
    /\ pc = "gate"
    /\ LET name == EvalFileName(PeriodKey(now)) IN
       /\ eval_file' = Some(name)
       /\ keys' = Append(keys, [at |-> now, key |-> PeriodKey(now)])
       /\ IF Exists(evalDir, name)
          THEN pc' = "load_dataset" /\ log' = Append(log, "gate_miss")
          ELSE pc' = "make_submission" /\ log' = Append(log, "gate_hit")
    /\ UNCHANGED <<config, remote, now, run_at_dt, evalDir, subDir,
                   submission_file_path, model_id, published, ledger, cycle,
                   attemptTimes, attemptData, written, runs>>

\* the period key, the eval file name and the check that the file exists
main_gate ==
    /\ pc = "gate"
    /\ LET name == EvalFileName(PeriodKey(now)) IN
       /\ eval_file' = Some(name)
       /\ keys' = Append(keys, [at |-> now, key |-> PeriodKey(now)])
       /\ IF ~Exists(evalDir, name)
          THEN pc' = "load_dataset" /\ log' = Append(log, "gate_miss")
          ELSE pc' = "make_submission" /\ log' = Append(log, "gate_hit")
    /\ UNCHANGED <<config, remote, now, run_at_dt, evalDir, subDir,
                   submission_file_path, model_id, published, ledger, cycle,
                   attemptTimes, attemptData, written, runs>>

\* load_dataset up to its call of download_dataset
load_dataset ==
    /\ pc = "load_dataset"
    /\ \/ pc' = "download" /\ UNCHANGED log
       \/ Raise                      \* Competition.from_defaults, get_hg_revision
    /\ UNCHANGED <<config, remote, now, run_at_dt, eval_file, evalDir,
                   subDir, submission_file_path, model_id, published,
                   ledger, cycle, attemptTimes, attemptData, written, keys,
                   runs>>

\* download_dataset without the try/except around snapshot_download
download_dataset_raises ==
    /\ pc = "download"
    /\ \E d \in FetchDurations :
          /\ now' = now + d
          /\ \/ /\ evalDir' = Put(EmptyDir, RawDataName, remote)
                /\ log' = Append(log, "fetch")
                /\ pc' = "rename"
             \/ /\ evalDir' \in {EmptyDir, Put(EmptyDir, RawDataName, remote)}
                /\ log' = log \o <<"fetch", "fetch_error">>
                /\ pc' = "crashed"
             \/ /\ evalDir' = EmptyDir
                /\ Raise
    /\ UNCHANGED <<config, remote, run_at_dt, eval_file, subDir,
                   submission_file_path, model_id, published, ledger, cycle,
                   attemptTimes, attemptData, written, keys, runs>>

\* download_dataset(..., force=True): the directory is removed and made
\* again, then the snapshot is fetched; an exception of the fetch is printed
\* and swallowed, whatever the fetch left behind.
download_dataset ==
    /\ pc = "download"
    /\ \E d \in FetchDurations :
          /\ now' = now + d
          /\ \/ /\ evalDir' = Put(EmptyDir, RawDataName, remote)
                /\ log' = Append(log, "fetch")
                /\ pc' = "rename"
             \/ /\ evalDir' \in {EmptyDir, Put(EmptyDir, RawDataName, remote)}
                /\ log' = log \o <<"fetch", "fetch_error">>
                /\ pc' = "rename"
             \/ /\ evalDir' = EmptyDir          \* os.makedirs raises
                /\ Raise
    /\ UNCHANGED <<config, remote, run_at_dt, eval_file, subDir,
                   submission_file_path, model_id, published, ledger, cycle,
                   attemptTimes, attemptData, written, keys, runs>>

\* os.rename(data.jsonl, eval_file) at the end of load_dataset
load_dataset_rename ==
    /\ pc = "rename"
    /\ IF Exists(evalDir, RawDataName)
       THEN /\ evalDir' = Rename(evalDir, RawDataName, eval_file[1])
            /\ log' = Append(log, "refreshed")
            /\ pc' = "make_submission"
       ELSE /\ Raise
            /\ UNCHANGED evalDir
    /\ UNCHANGED <<config, remote, now, run_at_dt, eval_file, subDir,
                   submission_file_path, model_id, published, ledger, cycle,
                   attemptTimes, attemptData, written, keys, runs>>

\* make_submission(eval_data_dir, eval_file, submission_dir, submission_size)
make_submission(submission_size) ==
    /\ pc = "make_submission"
    /\ \/ /\ Exists(evalDir, eval_file[1])
          /\ \E p \in Perms(Len(evalDir[eval_file[1]])) :
                LET eval_data == Truncate(Shuffled(evalDir[eval_file[1]], p),
                                          submission_size)
                    date == PeriodKey(now)
                    submission_file == SubmissionFileName(date, submission_size)
                IN /\ subDir' = Put(subDir, submission_file, eval_data)
                   /\ written' = Append(written, submission_file)
                   /\ keys' = Append(keys, [at |-> now, key |-> date])
                   /\ submission_file_path' = Some(submission_file)
          /\ log' = Append(log, "build")
          /\ pc' = "upload"
       \/ /\ Raise                    \* load_jsonl, makedirs or open raises
          /\ UNCHANGED <<subDir, written, keys, submission_file_path>>
    /\ UNCHANGED <<config, remote, now, run_at_dt, eval_file, evalDir,
                   model_id, published, ledger, cycle, attemptTimes,
                   attemptData, runs>>

\* main's call: make_submission(config.eval_data_dir, eval_file, config.submission_dir)
main_make_submission == make_submission(MainSubmissionSize)

\* model.upload_data, then the ModelId with the commit it returned
upload_data ==
    /\ pc = "upload"
    /\ \/ LET commit_id == Len(published) + 1 IN
          /\ published' = Append(published,
                                 [repo |-> HfRepoId,
                                  path |-> submission_file_path[1],
                                  items |-> subDir[submission_file_path[1]],
                                  commit |-> commit_id])
          /\ model_id' = Some(ModelId(HfRepoId, commit_id, CompetitionId))
          /\ log' = Append(log, "publish")
          /\ pc' = "announce"
       \/ /\ Raise
          /\ UNCHANGED <<published, model_id>>
    /\ UNCHANGED <<config, remote, now, run_at_dt, eval_file, evalDir,
                   subDir, submission_file_path, ledger, cycle,
                   attemptTimes, attemptData, written, keys, runs>>

-----------------------------------------------------------------------------
(* The commit loop of main *)

\* store_model_metadata with an attempt cap: the second rejection is raised.
store_model_metadata_capped ==
    /\ pc = "announce"
    /\ attemptTimes' = Append(attemptTimes, now)
    /\ attemptData' = Append(attemptData, to_compressed_str(model_id[1]))
    /\ \/ /\ ledger' = Append(ledger, to_compressed_str(model_id[1]))
          /\ log' = log \o <<"announce", "accepted">>
          /\ pc' = "returned"
       \/ /\ Count(log, "rejected") < MaxFails
          /\ log' = log \o <<"announce", "rejected">>
          /\ pc' = IF Count(log, "rejected") >= 1 THEN "crashed" ELSE "backoff"
          /\ UNCHANGED ledger
    /\ UNCHANGED <<config, remote, now, run_at_dt, eval_file, evalDir,
                   subDir, submission_file_path, model_id, published, cycle,
                   written, keys, runs>>

\* store_model_metadata with a `break` in the except branch: main returns.
store_model_metadata_break ==
    /\ pc = "announce"
    /\ attemptTimes' = Append(attemptTimes, now)
    /\ attemptData' = Append(attemptData, to_compressed_str(model_id[1]))
    /\ \/ /\ ledger' = Append(ledger, to_compressed_str(model_id[1]))
          /\ log' = log \o <<"announce", "accepted">>
          /\ pc' = "returned"
       \/ /\ Count(log, "rejected") < MaxFails
          /\ log' = log \o <<"announce", "rejected">>
          /\ pc' = "returned"
          /\ UNCHANGED ledger
    /\ UNCHANGED <<config, remote, now, run_at_dt, eval_file, evalDir,
                   subDir, submission_file_path, model_id, published, cycle,
                   written, keys, runs>>

\* one pass of `while True`: chain.store_model_metadata returns (break) or
\* raises (the except branch, up to the call of time.sleep)
store_model_metadata ==
    /\ pc = "announce"
    /\ attemptTimes' = Append(attemptTimes, now)
    /\ attemptData' = Append(attemptData, to_compressed_str(model_id[1]))
    /\ \/ /\ ledger' = Append(ledger, to_compressed_str(model_id[1]))
          /\ log' = log \o <<"announce", "accepted">>
          /\ pc' = "returned"
       \/ /\ Count(log, "rejected") < MaxFails
          /\ log' = log \o <<"announce", "rejected">>
          /\ pc' = "backoff"
          /\ UNCHANGED ledger
    /\ UNCHANGED <<config, remote, now, run_at_dt, eval_file, evalDir,
                   subDir, submission_file_path, model_id, published, cycle,
                   written, keys, runs>>

\* retry_sleep after which the ModelId is built again, for a new commit
retry_sleep_rebuild ==
    /\ pc = "backoff"
    /\ now' = now + RetrySleep
    /\ log' = Append(log, "sleep")
    /\ pc' = "announce"
    /\ model_id' = Some(ModelId(HfRepoId, model_id[1].commit + 1, CompetitionId))
    /\ UNCHANGED <<config, remote, run_at_dt, eval_file, evalDir, subDir,
                   submission_file_path, published, ledger, cycle,
                   attemptTimes, attemptData, written, keys, runs>>

\* retry_sleep that goes back to the upload instead of the announce
retry_sleep_republish ==
    /\ pc = "backoff"
    /\ now' = now + RetrySleep
    /\ log' = Append(log, "sleep")
    /\ pc' = "upload"
    /\ UNCHANGED <<config, remote, run_at_dt, eval_file, evalDir, subDir,
                   submission_file_path, model_id, published, ledger, cycle,
                   attemptTimes, attemptData, written, keys, runs>>

\* retry_sleep with a backoff of a minute
retry_sleep_short ==
    /\ pc = "backoff"
    /\ now' = now + SecondsPerMinute
    /\ log' = Append(log, "sleep")
    /\ pc' = "announce"
    /\ UNCHANGED <<config, remote, run_at_dt, eval_file, evalDir, subDir,
                   submission_file_path, model_id, published, ledger, cycle,
                   attemptTimes, attemptData, written, keys, runs>>

\* time.sleep(120) returns, the loop goes round
retry_sleep ==
    /\ pc = "backoff"
    /\ now' = now + RetrySleep
    /\ log' = Append(log, "sleep")
    /\ pc' = "announce"
    /\ UNCHANGED <<config, remote, run_at_dt, eval_file, evalDir, subDir,
                   submission_file_path, model_id, published, ledger, cycle,
                   attemptTimes, attemptData, written, keys, runs>>

-----------------------------------------------------------------------------
\* terminate with the commit loop catching BaseException: a signal that
\* arrives during a pending commit is handled like a rejection.
terminate_absorbed ==
    /\ Live
    /\ pc' = IF pc \in {"announce", "backoff"} /\ Count(log, "signal") = 0
             THEN "backoff" ELSE "killed"
    /\ log' = Append(log, "signal")
    /\ UNCHANGED <<config, remote, now, run_at_dt, eval_file, evalDir, subDir,
                   submission_file_path, model_id, published, ledger, cycle,
                   attemptTimes, attemptData, written, keys, runs>>

\* A signal ends the process wherever it is (KeyboardInterrupt and SystemExit
\* are not Exceptions: the except branch of the commit loop lets them pass).
terminate ==
    /\ Live
    /\ pc' = "killed"
    /\ log' = Append(log, "signal")
    /\ UNCHANGED <<config, remote, now, run_at_dt, eval_file, evalDir,
                   subDir, submission_file_path, model_id, published,
                   ledger, cycle, attemptTimes, attemptData, written,
                   keys, runs>>

Step ==
    \/ wait_until
    \/ wait_until_wake
    \/ run_once
    \/ run_finished
    \/ run_exit
    \/ main_setup
    \/ main_gate
    \/ load_dataset
    \/ download_dataset
    \/ load_dataset_rename
    \/ main_make_submission
    \/ upload_data
    \/ store_model_metadata
    \/ retry_sleep

Next == Step \/ terminate

Spec == Init /\ [][Next]_vars

\* The process is scheduled as long as it is alive; the ledger rejects at
\* most MaxFails announces of a cycle.
FairSpec == Init /\ [][Next]_vars /\ WF_vars(Step)

-----------------------------------------------------------------------------
(* The commit loop: C1, C2, C3 *)

Pending == pc \in {"announce", "backoff"}

\* The part of the log the commit loop wrote.
LoopLog == SelectSeq(log, LAMBDA x : x \in {"announce", "rejected", "sleep", "accepted"})

\* N rejected attempts, each followed by one sleep, then the accepted one.
RetryPattern(N) ==
    [i \in 1..(3 * N + 2) |->
        IF i = 3 * N + 2 THEN "accepted"
        ELSE IF i % 3 = 1 THEN "announce"
        ELSE IF i % 3 = 2 THEN "rejected"
        ELSE "sleep"]

\* C1: when the announce is rejected N times and then accepted, main has
\* left the commit loop after exactly N+1 attempts and exactly N sleeps, one
\* after each rejection and none after the acceptance, and consecutive
\* attempts are at least 120 seconds apart.
C1_RetryCounts ==
    pc = "returned" =>
        LET N == Count(log, "rejected") IN
        /\ Count(log, "announce") = N + 1
        /\ Count(log, "sleep") = N
        /\ LoopLog = RetryPattern(N)
        /\ Len(attemptTimes) = N + 1
        /\ \A i \in 1..N : attemptTimes[i + 1] - attemptTimes[i] >= RetrySleep
        /\ Last(log) = "accepted"

C1_Witness == pc = "returned" /\ Count(log, "rejected") >= 2

\* C2: a cycle in the commit loop leaves it only into COMMITTED (main
\* returning after an accepted announce) or by the process being terminated
\* from outside; there is no gave-up state and no attempt cap; and when the
\* ledger stops rejecting, the cycle gets to COMMITTED unless the process is
\* terminated first.
C2_OnlyCommittedLeavesLoop ==
    /\ [][Pending => (Pending' \/ pc' = "returned" \/ pc' = "killed")]_vars
    /\ [][pc = "backoff" /\ pc' # "killed" => pc' = "announce"]_vars
    /\ (Pending ~> (pc = "returned" \/ pc = "killed"))

C2_Witness == pc = "announce" /\ Count(log, "rejected") >= 2

\* C3: main returns to the run loop only after an accepted announce: every
\* time the process is back in __main__ (main returned, the loop head, the
\* next wait, the exit) each main entered so far has had its announce
\* accepted, and a rejected announce never ends the process with an error.
C3_AnnounceErrorAbsorbed ==
    /\ pc = "returned" => Last(log) = "accepted"
    /\ pc \in {"returned", "loop", "sleeping", "exit"} => Len(ledger) = cycle
    /\ Count(log, "rejected") > 0 => pc # "crashed"

C3_Witness ==
    /\ pc = "loop"
    /\ cycle = 1
    /\ Truthy(config.run_at)
    /\ Count(log, "rejected") >= 1

-----------------------------------------------------------------------------
(* The submission size: C4 *)

Built == submission_file_path # None

\* C4: with --submission-size k and an eval dataset of n >= k records, the
\* submission file the cycle builds and publishes holds exactly k records;
\* a one-shot run that has ended wrote one submission file, published once
\* and had one announce accepted.
C4_CappedSubmission ==
    /\ (/\ Built
        /\ config.submission_size # None
        /\ Exists(evalDir, eval_file[1])
        /\ Len(evalDir[eval_file[1]]) >= config.submission_size[1])
       => /\ Len(subDir[submission_file_path[1]]) = config.submission_size[1]
          /\ model_id # None =>
                Len(published[Len(published)].items) = config.submission_size[1]
    /\ pc = "exit" => Len(written) = 1 /\ Len(published) = 1 /\ Len(ledger) = 1

-----------------------------------------------------------------------------
(* The refresh gate: C5 *)

Pos(seq, x) == CHOOSE i \in DOMAIN seq : seq[i] = x

\* C5: in every cycle, when the eval file of the current period key exists
\* at the gate the dataset fetch is not invoked in that cycle, and when it
\* does not exist the build starts only after the fetch was invoked and
\* load_dataset has returned (the fetched file renamed to the eval file).
C5_RefreshGate ==
    /\ pc = "load_dataset" => ~Exists(evalDir, EvalFileName(PeriodKey(now)))
    /\ Count(log, "gate_hit") > 0 => Count(log, "fetch") = 0
    /\ (pc = "make_submission" /\ Count(log, "gate_hit") > 0) =>
          /\ eval_file = Some(EvalFileName(PeriodKey(now)))
          /\ Exists(evalDir, eval_file[1])
    /\ (pc = "make_submission" /\ Count(log, "gate_miss") > 0) =>
          /\ Last(log) = "refreshed"
          /\ Exists(evalDir, eval_file[1])
          /\ ~Exists(evalDir, RawDataName)
    /\ (Count(log, "build") > 0 /\ Count(log, "gate_miss") > 0) =>
          /\ Count(log, "fetch") = 1
          /\ Count(log, "refreshed") = 1
          /\ Pos(log, "gate_miss") < Pos(log, "fetch")
          /\ Pos(log, "fetch") < Pos(log, "refreshed")
          /\ Pos(log, "refreshed") < Pos(log, "build")

C5_Witness ==
    /\ cycle = 2
    /\ Count(log, "gate_miss") = 1
    /\ Count(log, "build") = 1

-----------------------------------------------------------------------------
(* wait_until: C6, C7, C10 *)

Target == ParseRunAt(config.run_at)[1]

\* C6: for a valid schedule and any clock, the run instant wait_until sleeps
\* to is strictly later than now; it is today at the target time when that
\* is strictly after now, and otherwise (the target before now or equal to
\* it) exactly 24 hours after today's target.
C6_NextRunInFuture ==
    pc = "sleeping" =>
        LET today == (now \div SecondsPerDay) * SecondsPerDay + Target IN
        /\ run_at_dt > now
        /\ run_at_dt - now <= 24 * SecondsPerHour
        /\ run_at_dt % SecondsPerDay = Target
        /\ today > now => run_at_dt = today
        /\ today <= now => run_at_dt = today + 24 * SecondsPerHour

C6_Witness ==
    /\ pc = "sleeping"
    /\ runs = <<>>
    /\ now % SecondsPerDay = Target
    /\ run_at_dt = now + 24 * SecondsPerHour

Malformed(run_at) == run_at # None /\ ParseRunAt(run_at) = None

\* C7: for every malformed --run-at string (a segment count other than 2 or
\* 3, an hour outside 0..23, a minute or second outside 0..59) wait_until
\* raises before any sleep is started and the process halts with no step of
\* a cycle executed: no gate check, fetch, build, publish or announce.
C7_MalformedRunAtHalts ==
    Malformed(config.run_at) =>
        /\ pc \in {"loop", "crashed", "killed"}
        /\ cycle = 0
        /\ runs = <<>>
        /\ log \in {<<>>, <<"raise">>}
        /\ written = <<>> /\ published = <<>> /\ ledger = <<>>

\* C10: in scheduled mode every cycle starts no earlier than its run
\* instant, the run instants of successive cycles are strictly increasing,
\* on distinct calendar days and at the configured time of day, and each
\* cycle has a run instant of its own (one cycle per run instant).
C10_NoDoubleFiring ==
    /\ \A i \in DOMAIN runs : runs[i] % SecondsPerDay = Target
    /\ \A i, j \in DOMAIN runs :
          i < j => /\ runs[i] < runs[j]
                   /\ runs[i] \div SecondsPerDay < runs[j] \div SecondsPerDay
    /\ runs # <<>> => now >= runs[Len(runs)]
    /\ Truthy(config.run_at) => cycle <= Len(runs)
    /\ (Truthy(config.run_at) /\ pc = "main") => Len(runs) = cycle + 1
    /\ (Truthy(config.run_at) /\ (Pending \/ pc = "returned")) => Len(runs) = cycle

\* The first cycle ended at exactly the next day's target instant: the
\* second run instant is the day after.
C10_Witness ==
    /\ pc = "sleeping"
    /\ Len(runs) = 1
    /\ now > runs[1]
    /\ now % SecondsPerDay = Target
    /\ run_at_dt = runs[1] + 2 * SecondsPerDay

-----------------------------------------------------------------------------
(* Failures before the commit loop and the order of the steps: C8, C9 *)

\* C8: an exception raised in a cycle before the commit loop (by the setup,
\* load_dataset and its rename, the read of the eval file, the write of the
\* submission, the upload) ends the process, in scheduled mode too: the
\* step is not run again, the cycle makes no announce attempt, and no later
\* wait or cycle starts.
C8_FailureIsFatal ==
    /\ [](Count(log, "raise") > 0 =>
             /\ pc = "crashed"
             /\ Last(log) = "raise"
             /\ Count(log, "raise") = 1
             /\ Count(log, "announce") = 0)
    /\ [][pc = "crashed" => pc' = "crashed"]_vars

C8_Witness ==
    /\ pc = "crashed"
    /\ Truthy(config.run_at)
    /\ cycle = 2
    /\ Count(log, "build") = 1
    /\ Count(log, "publish") = 0

Rank(x) ==
    CASE x = "wait" -> 0
      [] x \in {"gate_hit", "gate_miss"} -> 1
      [] x \in {"fetch", "fetch_error"} -> 2
      [] x = "refreshed" -> 3
      [] x = "build" -> 4
      [] x = "publish" -> 5
      [] x \in {"announce", "rejected", "sleep", "accepted"} -> 6
      [] x \in {"raise", "signal"} -> 7

Gates == Count(log, "gate_hit") + Count(log, "gate_miss")

\* C9: the steps of a cycle occur in the order wait (scheduled mode only),
\* gate check and refresh, build, publish, announce attempts; the build and
\* the publish each occur exactly once per cycle and before the first
\* announce attempt, and an announce retry never runs the refresh, the build
\* or the publish again.
C9_StepOrder ==
    /\ \A i, j \in DOMAIN log : i < j => Rank(log[i]) <= Rank(log[j])
    /\ \A x \in {"wait", "fetch", "refreshed", "build", "publish"} : Count(log, x) <= 1
    /\ Gates <= 1
    /\ Count(log, "build") = 1 => Gates = 1
    /\ Count(log, "publish") = 1 => Count(log, "build") = 1
    /\ Count(log, "announce") > 0 =>
          Count(log, "build") = 1 /\ Count(log, "publish") = 1
    /\ Gates = 1 => (Count(log, "wait") = 1 <=> Truthy(config.run_at))
    /\ Len(written) <= cycle
    /\ Len(published) <= Len(written)
    /\ Len(ledger) <= Len(published)
    /\ (Pending \/ pc = "returned") =>
          Len(written) = cycle /\ Len(published) = cycle

C9_Witness ==
    /\ pc = "returned"
    /\ cycle = 2
    /\ Count(log, "wait") = 1
    /\ Count(log, "fetch") = 1
    /\ Count(log, "rejected") = 2

-----------------------------------------------------------------------------
(* The run loop: C11, C12 *)

\* C11: in scheduled mode the process never ends normally: after a cycle
\* whose announce was accepted the loop computes the next run instant,
\* sleeps to it and enters main again; as long as the process is scheduled
\* and not terminated, every committed cycle is followed by the start of the
\* next one (up to the MaxCycles cycles of the model).
C11_ScheduledRunsForever ==
    /\ [](Truthy(config.run_at) => pc # "exit")
    /\ [][(Truthy(config.run_at) /\ pc = "returned" /\ pc' # "killed")
             => pc' = "loop"]_vars
    /\ [][(pc = "loop" /\ cycle > 0 /\ pc' # "killed")
             => (pc' = "sleeping" /\ run_at_dt' > now)]_vars
    /\ [][(pc = "sleeping" /\ pc' # "killed")
             => (pc' = "main" /\ now' >= run_at_dt)]_vars
    /\ \A k \in 1..(MaxCycles - 1) :
          (Truthy(config.run_at) /\ pc = "returned" /\ cycle = k)
             ~> (cycle = k + 1 \/ pc = "killed")

C11_Witness ==
    /\ pc = "gate"
    /\ cycle = 2
    /\ Len(runs) = 2
    /\ Len(ledger) = 1

\* C12: in one-shot mode no schedule wait occurs, main is entered exactly
\* once, the process ends when main has returned (its announce accepted),
\* and a second cycle is never started.
C12_OneShot ==
    /\ [](~Truthy(config.run_at) =>
             /\ pc # "sleeping"
             /\ runs = <<>>
             /\ Count(log, "wait") = 0
             /\ cycle <= 1
             /\ Len(ledger) <= 1
             /\ pc = "exit" => (cycle = 1 /\ Len(ledger) = 1 /\ Last(log) = "accepted"))
    /\ [][(~Truthy(config.run_at) /\ pc = "loop" /\ pc' # "killed")
             => (pc' = "main" /\ now' = now)]_vars
    /\ [][(~Truthy(config.run_at) /\ pc = "returned" /\ pc' # "killed")
             => pc' = "exit"]_vars
    /\ [][pc = "exit" => pc' = "exit"]_vars

C12_Witness ==
    /\ pc = "exit"
    /\ config.run_at = None
    /\ Count(log, "rejected") >= 1

-----------------------------------------------------------------------------
(* make_submission alone: C13 *)

\* The process at the call of make_submission, for every eval file of up to
\* MaxLen records and every submission_size up to MaxLen or none.
BuildInit ==
    /\ config \in [run_at : {None},
                   submission_size : {None} \cup {Some(k) : k \in 0..MaxLen}]
    /\ remote \in {RemoteData(n) : n \in 0..MaxLen}
    /\ now \in StartTimes
    /\ pc = "make_submission"
    /\ run_at_dt = -1
    /\ eval_file = Some(EvalFileName(PeriodKey(now)))
    /\ evalDir = Put(EmptyDir, EvalFileName(PeriodKey(now)), remote)
    /\ subDir = EmptyDir
    /\ submission_file_path = None
    /\ model_id = None
    /\ published = <<>>
    /\ ledger = <<>>
    /\ cycle = 1
    /\ log = <<"gate_hit">>
    /\ attemptTimes = <<>>
    /\ attemptData = <<>>
    /\ written = <<>>
    /\ keys = <<>>
    /\ runs = <<>>

BuildNext == make_submission(config.submission_size)

BuildSpec == BuildInit /\ [][BuildNext]_vars

Range(seq) == {seq[i] : i \in DOMAIN seq}

\* C13: make_submission on an eval file of n records writes, with a cap
\* k <= n, exactly k records, each a record of the eval file and no record
\* position taken twice (the records of the eval file are pairwise
\* distinct here); with no cap it writes exactly n records, a permutation of
\* the eval file.
C13_SubmissionItems ==
    pc = "upload" =>
        LET data == evalDir[eval_file[1]]
            out == subDir[submission_file_path[1]]
            k == config.submission_size
        IN /\ (k # None /\ k[1] <= Len(data)) => Len(out) = k[1]
           /\ k = None => (Len(out) = Len(data) /\ Range(out) = Range(data))
           /\ \A i \in DOMAIN out : out[i] \in Range(data)
           /\ \A i, j \in DOMAIN out : i # j => out[i] # out[j]
           /\ submission_file_path = Some(SubmissionFileName(PeriodKey(now), k))

C13_Witness ==
    /\ pc = "upload"
    /\ config.submission_size = Some(2)
    /\ Len(evalDir[eval_file[1]]) = 3
    /\ subDir[submission_file_path[1]][1] = evalDir[eval_file[1]][3]

-----------------------------------------------------------------------------
(* C14, C16: the period key of the submission file *)

\* The clock hour an instant lies in, and the order of two period keys (the
\* order of the fixed-width strings "%Y%m%d%H").
Hour(t) == t \div SecondsPerHour
KeyLeq(a, b) == a[1] < b[1] \/ (a[1] = b[1] /\ a[2] <= b[2])

\* C15: the period key is a function of the clock truncated to the hour: two
\* readings in the same clock hour give the same key, two readings in
\* different clock hours give different keys, and as the clock advances the
\* key never decreases.
C15_PeriodKeyByHour ==
    \A i, j \in DOMAIN keys :
        /\ (Hour(keys[i].at) = Hour(keys[j].at)) <=> (keys[i].key = keys[j].key)
        /\ i <= j => (keys[i].at <= keys[j].at /\ KeyLeq(keys[i].key, keys[j].key))

C15_Witness ==
    /\ Len(keys) = 4
    /\ keys[1].key # keys[2].key
    /\ keys[1].key[2] = keys[2].key[2]
    /\ keys[2].key = keys[3].key
    /\ keys[2].at < keys[3].at

\* C14: a submission file is created once per period and never rewritten:
\* no path occurs twice among the submission files the process has written,
\* however far the clock advances during a refresh or a retry loop.
C14_WrittenOnce ==
    \A i, j \in DOMAIN written : i # j => written[i] # written[j]


\* C16: the period key is computed once, when the run starts: the key in the
\* name of the submission file a cycle builds is the key in the name of the
\* eval file the same cycle checked, however far the clock advances between
\* the gate and the build.
C16_OneKeyPerRun ==
    Built => /\ submission_file_path[1][2] = eval_file[1][2]
             /\ submission_file_path[1][3] = eval_file[1][3]

-----------------------------------------------------------------------------
(* C17: the payload of the announce attempts *)

\* C17: every announce attempt of a cycle submits the same payload, the
\* ModelId built once before the commit loop from the commit the cycle's own
\* publish returned: attempt i's payload is attempt 1's, failed attempts and
\* backoff sleeps leave the ModelId alone, and no two cycles announce the
\* same commit.
C17_SamePayload ==
    /\ Len(attemptData) = Len(attemptTimes)
    /\ \A i \in DOMAIN attemptData :
          /\ attemptData[i] = attemptData[1]
          /\ attemptData[i] = to_compressed_str(
                 ModelId(HfRepoId, Last(published).commit, CompetitionId))
          /\ Last(published).path = submission_file_path[1]
    /\ Pending => model_id = Some(ModelId(HfRepoId, Last(published).commit, CompetitionId))
    /\ \A i, j \in DOMAIN ledger : i # j => ledger[i] # ledger[j]

C17_Witness ==
    /\ cycle = 2
    /\ Len(attemptData) = 3
    /\ Len(ledger) = 2
    /\ attemptData[3] = to_compressed_str(ModelId(HfRepoId, 2, CompetitionId))

-----------------------------------------------------------------------------
(* C18: a failed fetch *)

\* C18 as claimed: a cycle whose fetch failed never builds (nor publishes,
\* nor announces): the failure is fatal before the build.
C18_FailedFetchNeverBuilds ==
    Count(log, "fetch_error") > 0 =>
        /\ Count(log, "build") = 0
        /\ Count(log, "publish") = 0
        /\ Count(log, "announce") = 0

\* C18 as amended: a failed fetch is logged and not raised by
\* download_dataset, the cycle goes on to the rename; the directory having
\* been cleaned first, a failed fetch that delivered no data.jsonl is fatal
\* at the rename, before the build, and one that did deliver data.jsonl lets
\* the cycle build from that file; a cycle that refreshed builds and
\* publishes the freshly fetched records, never those of an earlier period.
C18_FetchFailure ==
    /\ [][(pc = "download" /\ Last(log') = "fetch_error") => pc' = "rename"]_vars
    /\ [][(pc = "rename" /\ ~Exists(evalDir, RawDataName) /\ pc' # "killed")
              => (pc' = "crashed" /\ ~Built')]_vars
    /\ []((Count(log, "fetch_error") > 0 /\ Count(log, "refreshed") = 0) =>
              (~Built /\ Count(log, "build") = 0 /\ Count(log, "publish") = 0
                      /\ Count(log, "announce") = 0))
    /\ []((Count(log, "gate_miss") > 0 /\ pc = "make_submission") =>
              (DOMAIN evalDir = {eval_file[1]} /\ evalDir[eval_file[1]] = remote))
    /\ []((Count(log, "gate_miss") > 0 /\ Built) =>
              Range(subDir[submission_file_path[1]]) = Range(remote))
    /\ []((Count(log, "gate_miss") > 0 /\ Count(log, "publish") > 0) =>
              Range(Last(published).items) = Range(remote))

C18_Witness ==
    /\ pc = "crashed"
    /\ cycle = 2
    /\ Count(log, "fetch_error") > 0
    /\ Last(log) = "raise"
    /\ evalDir = EmptyDir
    /\ Len(written) = 1

-----------------------------------------------------------------------------
(* C19: termination during a pending commit *)

\* C19: a pending commit is left only by the accepted announce or by the
\* termination of the process, and the commit loop does not absorb the
\* termination: a signal delivered during an announce attempt or during the
\* backoff stops the process where it is, with no further announce attempt
\* and no further cycle, and the submission file the cycle wrote stays in
\* the submission directory as it was written.
C19_TerminationStops ==
    /\ [](Count(log, "signal") > 0 =>
             (pc = "killed" /\ Last(log) = "signal" /\ Count(log, "signal") = 1))
    /\ [][(Pending /\ ~Pending') =>
             \/ (pc' = "returned" /\ Last(log') = "accepted")
             \/ (pc' = "killed" /\ Last(log') = "signal")]_vars
    /\ [][(Pending /\ pc' = "killed") =>
             /\ attemptTimes' = attemptTimes
             /\ ledger' = ledger
             /\ published' = published
             /\ subDir' = subDir
             /\ cycle' = cycle]_vars
    /\ [][pc = "killed" => UNCHANGED vars]_vars
    /\ []((pc = "killed" /\ Count(log, "publish") > 0) =>
             /\ Exists(subDir, submission_file_path[1])
             /\ subDir[submission_file_path[1]] = Last(published).items)

C19_Witness ==
    /\ pc = "killed"
    /\ Len(log) >= 2
    /\ log[Len(log) - 1] = "rejected"
    /\ Len(attemptTimes) = 2
    /\ Exists(subDir, submission_file_path[1])
    /\ Len(ledger) = 0

====
